---------------------------- MODULE Spec2Model ----------------------------
(***************************************************************************)
(* Model of lxml_xpath_ipaddress (src/lxml_xpath_ipaddress/__init__.py):   *)
(* the IPv4/IPv6 classification predicates, ip_only, in_subnet with its    *)
(* lru_cache'd _to_subnet, and the functions bound into the lxml namespace.*)
(*                                                                         *)
(* A text is a sequence of one-character strings.  The parsers of Python's *)
(* ipaddress module, which the program calls, are modelled character by    *)
(* character over the alphabet of decimal and hexadecimal digits, '.',     *)
(* ':', '/' and arbitrary other characters (IPv6 scope ids, '%', are       *)
(* outside the modelled alphabet).  An address value is the sequence of    *)
(* its groups: 4 octets for IPv4, 8 hextets for IPv6.                      *)
(*                                                                         *)
(* Python values: True, False and None are the strings "True", "False"     *)
(* and "None"; the text None (an element without text) is NoneText.        *)
(***************************************************************************)
EXTENDS Integers, Sequences, FiniteSets, TLC

(***************************************************************************)
(* Python values                                                           *)
(***************************************************************************)
PyTrue == "True"
PyFalse == "False"
PyNone == "None"

\* None where a text is expected; str(None) is no IP literal
NoneText == <<"None">>

\* bool(x) of a parsed ipaddress object: the classes define neither
\* __bool__ nor __len__, so every object is truthy
PyBool(obj) == PyTrue

\* Python's "a or b": a when a is truthy, b otherwise
PyOr(a, b) == IF a = PyTrue THEN a ELSE b

(***************************************************************************)
(* Characters and numbers                                                  *)
(***************************************************************************)
DecChars == <<"0", "1", "2", "3", "4", "5", "6", "7", "8", "9">>
HexLower == <<"0", "1", "2", "3", "4", "5", "6", "7", "8", "9",
              "a", "b", "c", "d", "e", "f">>
HexUpper == <<"0", "1", "2", "3", "4", "5", "6", "7", "8", "9",
              "A", "B", "C", "D", "E", "F">>

Range(s) == {s[i] : i \in DOMAIN s}

IsDecDigit(c) == c \in Range(DecChars)
IsHexDigit(c) == c \in Range(HexLower) \cup Range(HexUpper)

DecVal(c) == (CHOOSE i \in 1..10 : DecChars[i] = c) - 1
HexVal(c) == (CHOOSE i \in 1..16 : HexLower[i] = c \/ HexUpper[i] = c) - 1

\* int(s, base) for a string of legal digits
RECURSIVE IntOf(_, _)
IntOf(s, base) ==
    IF s = <<>> THEN 0
    ELSE LET c == s[Len(s)]
             d == IF base = 10 THEN DecVal(c) ELSE HexVal(c)
         IN  IntOf(SubSeq(s, 1, Len(s) - 1), base) * base + d

\* str(n) for base 10, '%x' % n for base 16
RECURSIVE StrOf(_, _)
StrOf(n, base) ==
    LET d == IF base = 10 THEN DecChars[(n % base) + 1] ELSE HexLower[(n % base) + 1]
    IN  IF n < base THEN <<d>> ELSE Append(StrOf(n \div base, base), d)

\* s.split(c)
RECURSIVE Split(_, _)
Split(s, c) ==
    IF \A i \in DOMAIN s : s[i] # c THEN <<s>>
    ELSE LET k == CHOOSE i \in DOMAIN s : s[i] = c /\ \A j \in 1..(i - 1) : s[j] # c
         IN  <<SubSeq(s, 1, k - 1)>> \o Split(SubSeq(s, k + 1, Len(s)), c)

\* c.join(parts)
RECURSIVE Join(_, _)
Join(parts, c) ==
    IF parts = <<>> THEN <<>>
    ELSE IF Len(parts) = 1 THEN parts[1]
    ELSE parts[1] \o <<c>> \o Join(Tail(parts), c)

Pow2(n) == 2 ^ n

(***************************************************************************)
(* Results of the ipaddress constructors: a parsed object, or Raise when   *)
(* the constructor raises ValueError (AddressValueError, NetmaskValueError)*)
(***************************************************************************)
Raise == [ok |-> FALSE, version |-> 0, ip |-> <<>>, prefixlen |-> 0]
Obj(v, ip, plen) == [ok |-> TRUE, version |-> v, ip |-> ip, prefixlen |-> plen]

\* width of one group, number of groups and _max_prefixlen of a family
GroupBits(v) == IF v = 4 THEN 8 ELSE 16
GroupCount(v) == IF v = 4 THEN 4 ELSE 8
IPV4LENGTH == 32
IPV6LENGTH == 128
MaxPrefixlen(v) == IF v = 4 THEN IPV4LENGTH ELSE IPV6LENGTH

\* bits of group i (1-based) covered by a prefix of length plen
KeptBits(v, i, plen) ==
    LET lo == (i - 1) * GroupBits(v)
    IN  IF plen <= lo THEN 0
        ELSE IF plen >= lo + GroupBits(v) THEN GroupBits(v)
        ELSE plen - lo

\* the netmask of prefix length plen, as groups (_ip_int_from_prefix)
Netmask(v, plen) ==
    [i \in 1..GroupCount(v) |->
        Pow2(GroupBits(v)) - Pow2(GroupBits(v) - KeptBits(v, i, plen))]

\* ip & netmask, group by group
MaskWith(v, ip, plen) ==
    [i \in 1..GroupCount(v) |->
        LET z == Pow2(GroupBits(v) - KeptBits(v, i, plen))
        IN  (ip[i] \div z) * z]

\* ip ^ _ALL_ONES
Invert(v, ip) == [i \in 1..GroupCount(v) |-> Pow2(GroupBits(v)) - 1 - ip[i]]

(***************************************************************************)
(* ipaddress: what the address, network and interface constructors share   *)
(***************************************************************************)
\* the first of two attempts that does not raise
FirstOk(a, b) == IF a.ok THEN a ELSE b

\* the first result of a list of attempts that does not raise
FirstParsed(rs) ==
    IF \A i \in DOMAIN rs : ~rs[i].ok THEN Raise
    ELSE rs[CHOOSE i \in DOMAIN rs : rs[i].ok /\ \A j \in 1..(i - 1) : ~rs[j].ok]

\* _split_optional_netmask / _split_addr_prefix: the address part and, when
\* there is a '/', the mask part; more than one '/' raises
SplitParts(parts) ==
    IF Len(parts) > 2
    THEN [ok |-> FALSE, addr |-> <<>>, hasmask |-> FALSE, mask |-> <<>>]
    ELSE IF Len(parts) = 2
    THEN [ok |-> TRUE, addr |-> parts[1], hasmask |-> TRUE, mask |-> parts[2]]
    ELSE [ok |-> TRUE, addr |-> parts[1], hasmask |-> FALSE, mask |-> <<>>]

SplitAddrPrefix(s) == SplitParts(Split(s, "/"))

\* a prefix length n within 0..max, or -1 (the constructor raises)
PrefixInRange(n, max) == IF n > max THEN -1 ELSE n

\* _prefix_from_prefix_string: the prefix length, or -1 when it raises
PrefixFromPrefixString(v, m) ==
    IF m = <<>> \/ \E i \in DOMAIN m : ~IsDecDigit(m[i]) THEN -1
    ELSE PrefixInRange(IntOf(m, 10), MaxPrefixlen(v))

PickOrRaise(ps) == IF ps = {} THEN -1 ELSE CHOOSE p \in ps : TRUE

\* _prefix_from_ip_int: the prefix length of a netmask 1*0*, or -1
PrefixFromIpInt(v, ip) ==
    PickOrRaise({p \in 0..MaxPrefixlen(v) : ip = Netmask(v, p)})

\* a network: with strict set, host bits in the address raise; .ip is the
\* network address
NetworkOf(v, a, plen) ==
    IF ~a.ok \/ plen < 0 THEN Raise
    ELSE IF MaskWith(v, a.ip, plen) # a.ip THEN Raise
    ELSE Obj(v, a.ip, plen)

\* an interface: .ip is the address itself
InterfaceOf(v, a, plen) ==
    IF ~a.ok \/ plen < 0 THEN Raise ELSE Obj(v, a.ip, plen)

(***************************************************************************)
(* ipaddress, IPv4                                                         *)
(***************************************************************************)
\* _BaseV4._parse_octet does not raise: strictly a decimal from 0 to 255,
\* at most 3 characters, no leading zero
V4OctetOk(o) ==
    /\ o # <<>>
    /\ \A i \in DOMAIN o : IsDecDigit(o[i])
    /\ Len(o) <= 3
    /\ ~(o # <<"0">> /\ o[1] = "0")
    /\ IntOf(o, 10) <= 255

V4FromOctets(octets) ==
    IF Len(octets) # 4 THEN Raise
    ELSE IF \E i \in 1..4 : ~V4OctetOk(octets[i]) THEN Raise
    ELSE Obj(4, [i \in 1..4 |-> IntOf(octets[i], 10)], IPV4LENGTH)

\* _BaseV4._ip_int_from_string
V4_ip_int_from_string(s) ==
    IF s = <<>> THEN Raise ELSE V4FromOctets(Split(s, "."))

\* ipaddress.IPv4Address(s) for a string s
IPv4Address(s) ==
    IF "/" \in Range(s) THEN Raise ELSE V4_ip_int_from_string(s)

\* a netmask 1*0* first, else a hostmask 0*1*, or -1
V4PrefixOfMask(a) ==
    IF ~a.ok THEN -1
    ELSE IF PrefixFromIpInt(4, a.ip) >= 0 THEN PrefixFromIpInt(4, a.ip)
    ELSE PrefixFromIpInt(4, Invert(4, a.ip))

\* _prefix_from_ip_string: a dotted netmask or hostmask
PrefixFromIpString(m) == V4PrefixOfMask(V4_ip_int_from_string(m))

\* _BaseV4._make_netmask: prefix-length form first, dotted form second
V4MakeNetmask(m) ==
    IF PrefixFromPrefixString(4, m) >= 0 THEN PrefixFromPrefixString(4, m)
    ELSE PrefixFromIpString(m)

V4NetworkOfParts(sp) ==
    IF ~sp.ok THEN Raise
    ELSE NetworkOf(4, V4_ip_int_from_string(sp.addr),
                   IF sp.hasmask THEN V4MakeNetmask(sp.mask) ELSE IPV4LENGTH)

\* ipaddress.IPv4Network(s), strict
IPv4Network(s) == V4NetworkOfParts(SplitAddrPrefix(s))

V4InterfaceOfParts(sp) ==
    IF ~sp.ok THEN Raise
    ELSE InterfaceOf(4, IPv4Address(sp.addr),
                     IF sp.hasmask THEN V4MakeNetmask(sp.mask) ELSE IPV4LENGTH)

\* ipaddress.IPv4Interface(s)
IPv4Interface(s) == V4InterfaceOfParts(SplitAddrPrefix(s))

\* _BaseV4._string_from_ip_int
V4String(ip) == Join([i \in 1..4 |-> StrOf(ip[i], 10)], ".")

(***************************************************************************)
(* ipaddress, IPv6                                                         *)
(***************************************************************************)
\* _BaseV6._parse_hextet does not raise: 1 to 4 hex digits
V6HextetOk(h) ==
    /\ \A i \in DOMAIN h : IsHexDigit(h[i])
    /\ Len(h) <= 4
    /\ h # <<>>

\* the hextets: hi parts from the left, the skipped zeros, lo parts from
\* the right
V6FromHiLo(parts, hi, lo) ==
    IF \E i \in (1..hi) \cup ((Len(parts) - lo + 1)..Len(parts)) : ~V6HextetOk(parts[i])
    THEN Raise
    ELSE Obj(6, [i \in 1..8 |->
                    IF i <= hi THEN IntOf(parts[i], 16)
                    ELSE IF i <= 8 - lo THEN 0
                    ELSE IntOf(parts[Len(parts) - 8 + i], 16)], IPV6LENGTH)

\* no '::': exactly 8 parts, none of them empty at either end
V6NoSkip(parts) ==
    IF Len(parts) # 8 \/ parts[1] = <<>> \/ parts[Len(parts)] = <<>> THEN Raise
    ELSE V6FromHiLo(parts, 8, 0)

\* a '::' at (1-based) index skip: a leading or trailing ':' only as part
\* of the '::', and at least one hextet skipped
V6Skip(parts, hi, lo) ==
    IF \/ (parts[1] = <<>> /\ hi # 1)
       \/ (parts[Len(parts)] = <<>> /\ lo # 1)
    THEN Raise
    ELSE IF 8 - ((IF parts[1] = <<>> THEN 0 ELSE hi)
                 + (IF parts[Len(parts)] = <<>> THEN 0 ELSE lo)) < 1
    THEN Raise
    ELSE V6FromHiLo(parts, IF parts[1] = <<>> THEN 0 ELSE hi,
                           IF parts[Len(parts)] = <<>> THEN 0 ELSE lo)

V6FromEmpties(parts, empties) ==
    IF Len(parts) > 9 THEN Raise
    ELSE IF Cardinality(empties) > 1 THEN Raise      \* at most one '::'
    ELSE IF empties = {} THEN V6NoSkip(parts)
    ELSE V6Skip(parts, (CHOOSE i \in empties : TRUE) - 1,
                       Len(parts) - (CHOOSE i \in empties : TRUE))

V6FromParts(parts) ==
    V6FromEmpties(parts, {i \in 2..(Len(parts) - 1) : parts[i] = <<>>})

\* a dotted IPv4 address in the last part becomes two hextets
V6WithEmbedded(parts, v4) ==
    IF ~v4.ok THEN Raise
    ELSE V6FromParts(SubSeq(parts, 1, Len(parts) - 1)
                     \o <<StrOf(v4.ip[1] * 256 + v4.ip[2], 16),
                          StrOf(v4.ip[3] * 256 + v4.ip[4], 16)>>)

V6FromColonParts(parts) ==
    IF Len(parts) < 3 THEN Raise
    ELSE IF "." \in Range(parts[Len(parts)])
    THEN V6WithEmbedded(parts, IPv4Address(parts[Len(parts)]))
    ELSE V6FromParts(parts)

\* _BaseV6._ip_int_from_string
V6_ip_int_from_string(s) ==
    IF s = <<>> THEN Raise ELSE V6FromColonParts(Split(s, ":"))

\* ipaddress.IPv6Address(s) for a string s
IPv6Address(s) ==
    IF "/" \in Range(s) THEN Raise ELSE V6_ip_int_from_string(s)

\* _BaseV6._make_netmask: the prefix-length form only
V6MakeNetmask(m) == PrefixFromPrefixString(6, m)

V6NetworkOfParts(sp) ==
    IF ~sp.ok THEN Raise
    ELSE NetworkOf(6, V6_ip_int_from_string(sp.addr),
                   IF sp.hasmask THEN V6MakeNetmask(sp.mask) ELSE IPV6LENGTH)

\* ipaddress.IPv6Network(s), strict
IPv6Network(s) == V6NetworkOfParts(SplitAddrPrefix(s))

V6InterfaceOfParts(sp) ==
    IF ~sp.ok THEN Raise
    ELSE InterfaceOf(6, IPv6Address(sp.addr),
                     IF sp.hasmask THEN V6MakeNetmask(sp.mask) ELSE IPV6LENGTH)

\* ipaddress.IPv6Interface(s)
IPv6Interface(s) == V6InterfaceOfParts(SplitAddrPrefix(s))

\* number of consecutive zero hextets of ip starting at index i
RECURSIVE ZeroRun(_, _)
ZeroRun(ip, i) == IF i > Len(ip) \/ ip[i] # 0 THEN 0 ELSE 1 + ZeroRun(ip, i + 1)

\* _compress_hextets: the run of best zero hextets starting at start
\* replaced by '', with a '' more at an end of the address it touches
V6Compress(hextets, start, best) ==
    IF best > 1
    THEN (IF start = 1 THEN <<<<>>>> ELSE <<>>)
         \o SubSeq(hextets, 1, start - 1) \o <<<<>>>>
         \o SubSeq(hextets, start + best, 8)
         \o (IF start + best - 1 = 8 THEN <<<<>>>> ELSE <<>>)
    ELSE hextets

\* the first longest run of zero hextets
V6CompressRuns(hextets, runs, best) ==
    V6Compress(hextets,
               CHOOSE i \in 1..8 : runs[i] = best /\ \A j \in 1..(i - 1) : runs[j] < best,
               best)

V6CompressBest(hextets, runs) ==
    V6CompressRuns(hextets, runs,
                   CHOOSE l \in 0..8 : (\E i \in 1..8 : runs[i] = l)
                                       /\ (\A i \in 1..8 : runs[i] <= l))

\* _BaseV6._string_from_ip_int: lower-case hextets, compressed
V6String(ip) ==
    Join(V6CompressBest([i \in 1..8 |-> StrOf(ip[i], 16)],
                        [i \in 1..8 |-> ZeroRun(ip, i)]), ":")

(***************************************************************************)
(* ipaddress, either family                                                *)
(***************************************************************************)
\* ipaddress.ip_address: IPv4Address, else IPv6Address, else ValueError
ip_address(s) == FirstOk(IPv4Address(s), IPv6Address(s))

\* ipaddress.ip_network (strict)
ip_network(s) == FirstOk(IPv4Network(s), IPv6Network(s))

\* ipaddress.ip_interface
ip_interface(s) == FirstOk(IPv4Interface(s), IPv6Interface(s))

\* str(address)
AddrString(v, ip) == IF v = 4 THEN V4String(ip) ELSE V6String(ip)

\* _BaseNetwork.__contains__: address in network
Contains(net, addr) ==
    IF net.version # addr.version THEN FALSE
    ELSE MaskWith(net.version, addr.ip, net.prefixlen) = net.ip

(***************************************************************************)
(* The program: classification predicates.  Each tries its parsers in the  *)
(* order of its list of tests and returns the value of the first that does *)
(* not raise.                                                              *)
(***************************************************************************)
\* bool(b) of a Python comparison result
ToPy(b) == IF b THEN PyTrue ELSE PyFalse

\* "for test in tests: try: return bool(test(value))" and then the value
\* returned after the loop
BoolOfFirst(r, otherwise) == IF r.ok THEN PyBool(r) ELSE otherwise

\* the same with the tests "lambda x: parser(x)._prefixlen != width"
PrefixlenDiffers(r, width) == IF r.ok THEN ToPy(r.prefixlen # width) ELSE PyFalse

\* is_any_ip4 with IPv4Network as its only test
is_any_ip4_NetworkOnly(value) == BoolOfFirst(IPv4Network(value), PyFalse)

is_any_ip4(value) ==
    BoolOfFirst(FirstParsed(<<IPv4Network(value), IPv4Interface(value),
                              IPv4Address(value)>>), PyFalse)

\* is_net_ip4 without the comparison of _prefixlen with 32
is_net_ip4_AnyPrefix(value) ==
    BoolOfFirst(FirstParsed(<<IPv4Network(value), IPv4Interface(value)>>), PyFalse)

is_net_ip4(value) ==
    PrefixlenDiffers(FirstParsed(<<IPv4Network(value), IPv4Interface(value)>>), 32)

is_host_ip4(value) == BoolOfFirst(IPv4Address(value), PyFalse)

is_any_ip6(value) ==
    BoolOfFirst(FirstParsed(<<IPv6Network(value), IPv6Interface(value),
                              IPv6Address(value)>>), PyFalse)

\* the except branch passes and the function ends without a return: None
is_host_ip6(value) == BoolOfFirst(IPv6Address(value), PyNone)

\* is_net_ip6 with IPv6Network as its only test
is_net_ip6_NetworkOnly(value) == PrefixlenDiffers(IPv6Network(value), 128)

is_net_ip6(value) ==
    PrefixlenDiffers(FirstParsed(<<IPv6Network(value), IPv6Interface(value)>>), 128)

is_any_ip(value) == PyOr(is_any_ip4(value), is_any_ip6(value))

is_host_ip(value) == PyOr(is_host_ip4(value), is_host_ip6(value))

is_net_ip(value) == PyOr(is_net_ip4(value), is_net_ip6(value))

(***************************************************************************)
(* The program: extraction                                                 *)
(***************************************************************************)
\* str(address) of a parsed object, None (NoneText) when nothing parsed
\* str() of the whole interface or network, the prefix length included
StrOrNone_WithPrefix(r) ==
    IF ~r.ok THEN NoneText
    ELSE IF r.prefixlen = MaxPrefixlen(r.version) THEN AddrString(r.version, r.ip)
    ELSE AddrString(r.version, r.ip) \o <<"/">> \o StrOf(r.prefixlen, 10)

StrOrNone(r) == IF r.ok THEN AddrString(r.version, r.ip) ELSE NoneText

\* ip_only returning the base address of the subnet of an interface
SubnetBase(r) ==
    IF r.ok THEN Obj(r.version, MaskWith(r.version, r.ip, r.prefixlen), r.prefixlen)
    ELSE r

ip_only_SubnetBase(value) ==
    StrOrNone(SubnetBase(FirstParsed(<<ip_address(value), ip_interface(value),
                                       ip_network(value)>>)))

\* the address string of the first of address, interface (its .ip) and
\* network (its .network_address) that parses
ip_only(value) ==
    StrOrNone(FirstParsed(<<ip_address(value), ip_interface(value),
                            ip_network(value)>>))

(***************************************************************************)
(* Inputs.  Every text is written out as a literal, together with what it  *)
(* denotes: the family (0 when it is no IP literal), the address as groups,*)
(* the prefix length (-1 for a bare address, -2 for an invalid suffix) and *)
(* the canonical spelling of the address.                                  *)
(***************************************************************************)
V4AddrSamples == {
    [text |-> <<"1", "0", ".", "1", ".", "2", ".", "3">>,
      ip |-> <<10, 1, 2, 3>>],
    [text |-> <<"1", "0", ".", "1", "0", ".", "0", ".", "0">>,
      ip |-> <<10, 10, 0, 0>>],
    [text |-> <<"1", "0", ".", "1", "0", ".", "5", ".", "5">>,
      ip |-> <<10, 10, 5, 5>>],
    [text |-> <<"0", ".", "0", ".", "0", ".", "0">>,
      ip |-> <<0, 0, 0, 0>>] }

V4SuffixSamples == {
    [text |-> <<>>, plen |-> -1],
    [text |-> <<"/", "0">>, plen |-> 0],
    [text |-> <<"/", "1", "6">>, plen |-> 16],
    [text |-> <<"/", "2", "4">>, plen |-> 24],
    [text |-> <<"/", "3", "2">>, plen |-> 32],
    [text |-> <<"/", "2", "5", "5", ".", "2", "5", "5", ".", "0", ".", "0">>, plen |-> 16],
    [text |-> <<"/", "0", ".", "0", ".", "2", "5", "5", ".", "2", "5", "5">>, plen |-> 16],
    [text |-> <<"/", "3", "3">>, plen |-> -2],
    [text |-> <<"/">>, plen |-> -2],
    [text |-> <<"/", "2", "4", "/", "1">>, plen |-> -2] }

V6AddrSamples == {
    [text |-> <<"f", "e", "8", "0", ":", ":", "1">>,
      ip |-> <<65152, 0, 0, 0, 0, 0, 0, 1>>,
      canon |-> <<"f", "e", "8", "0", ":", ":", "1">>],
    [text |-> <<"F", "E", "8", "0", ":", "0", ":", "0", ":", "0", ":", "0", ":", "0", ":", "0", ":", "1">>,
      ip |-> <<65152, 0, 0, 0, 0, 0, 0, 1>>,
      canon |-> <<"f", "e", "8", "0", ":", ":", "1">>],
    [text |-> <<"f", "e", "8", "0", ":", ":">>,
      ip |-> <<65152, 0, 0, 0, 0, 0, 0, 0>>,
      canon |-> <<"f", "e", "8", "0", ":", ":">>],
    [text |-> <<":", ":">>,
      ip |-> <<0, 0, 0, 0, 0, 0, 0, 0>>,
      canon |-> <<":", ":">>],
    [text |-> <<"2", "0", "0", "1", ":", "d", "b", "8", ":", ":", "1", ":", "0", ":", "0", ":", "1">>,
      ip |-> <<8193, 3512, 0, 0, 1, 0, 0, 1>>,
      canon |-> <<"2", "0", "0", "1", ":", "d", "b", "8", ":", ":", "1", ":", "0", ":", "0", ":", "1">>],
    [text |-> <<"2", "0", "0", "1", ":", "D", "B", "8", ":", "0", ":", "0", ":", "1", ":", ":", "1">>,
      ip |-> <<8193, 3512, 0, 0, 1, 0, 0, 1>>,
      canon |-> <<"2", "0", "0", "1", ":", "d", "b", "8", ":", ":", "1", ":", "0", ":", "0", ":", "1">>],
    [text |-> <<":", ":", "f", "f", "f", "f", ":", "1", "0", ".", "1", ".", "2", ".", "3">>,
      ip |-> <<0, 0, 0, 0, 0, 65535, 2561, 515>>,
      canon |-> <<":", ":", "f", "f", "f", "f", ":", "a", "0", "1", ":", "2", "0", "3">>] }

V6SuffixSamples == {
    [text |-> <<>>, plen |-> -1],
    [text |-> <<"/", "0">>, plen |-> 0],
    [text |-> <<"/", "1", "0">>, plen |-> 10],
    [text |-> <<"/", "6", "4">>, plen |-> 64],
    [text |-> <<"/", "1", "2", "8">>, plen |-> 128],
    [text |-> <<"/", "1", "2", "9">>, plen |-> -2],
    [text |-> <<"/", "f", "f", "f", "f", ":", ":">>, plen |-> -2] }

JunkTexts == {
    <<>>,
    <<"h", "e", "l", "l", "o">>,
    <<"9", "9", "9", ".", "9", "9", "9", ".", "9", "9", "9", ".", "9", "9", "9">>,
    <<"1", ".", "2", ".", "3">>,
    <<"1", ":", ":", "2", ":", ":", "3">>,
    <<"1", "2", "3", "4", "5", ":", ":">>,
    <<" ", "1", "0", ".", "1", ".", "2", ".", "3">> }

Samples ==
    {[text |-> a.text \o x.text, fam |-> IF x.plen = -2 THEN 0 ELSE 4,
      ip |-> a.ip, plen |-> x.plen, canon |-> a.text]
        : a \in V4AddrSamples, x \in V4SuffixSamples}
    \cup
    {[text |-> a.text \o x.text, fam |-> IF x.plen = -2 THEN 0 ELSE 6,
      ip |-> a.ip, plen |-> x.plen, canon |-> a.canon]
        : a \in V6AddrSamples, x \in V6SuffixSamples}
    \cup
    {[text |-> t, fam |-> 0, ip |-> <<>>, plen |-> -2, canon |-> <<>>]
        : t \in JunkTexts \cup {NoneText}}

\* the texts handed to the functions
Texts == {r.text : r \in Samples}

\* the subnet strings handed to in_subnet: six networks, two of them the
\* same network spelled differently, a string with host bits set and a
\* string that is no IP literal
SubnetTexts == {
    <<"1", "0", ".", "1", "0", ".", "0", ".", "0", "/", "1", "6">>,
    <<"1", "0", ".", "1", "0", ".", "0", ".", "0", "/", "2", "5", "5", ".", "2", "5", "5", ".", "0", ".", "0">>,
    <<"1", "0", ".", "1", "0", ".", "5", ".", "5">>,
    <<"0", ".", "0", ".", "0", ".", "0", "/", "0">>,
    <<"f", "e", "8", "0", ":", ":", "/", "1", "0">>,
    <<":", ":", "/", "0">>,
    <<"1", "0", ".", "1", "0", ".", "5", ".", "5", "/", "1", "6">>,
    <<"h", "e", "l", "l", "o">> }

\* the inputs of the sequences of in_subnet calls
CacheSubnets == {
    <<"1", "0", ".", "1", "0", ".", "0", ".", "0", "/", "1", "6">>,
    <<"1", "0", ".", "1", "0", ".", "0", ".", "0", "/", "2", "5", "5", ".", "2", "5", "5", ".", "0", ".", "0">>,
    <<"1", "0", ".", "1", "0", ".", "5", ".", "5">>,
    <<"f", "e", "8", "0", ":", ":", "/", "1", "0">>,
    <<"1", "0", ".", "1", "0", ".", "5", ".", "5", "/", "1", "6">> }

CacheValues == {
    <<"1", "0", ".", "1", "0", ".", "5", ".", "5">>,
    <<"1", "0", ".", "1", ".", "2", ".", "3", "/", "2", "4">>,
    <<"f", "e", "8", "0", ":", ":", "1">>,
    <<"h", "e", "l", "l", "o">> }

(***************************************************************************)
(* The functions of the program and of ipaddress are deterministic         *)
(* functions of their argument: their values on the input texts, computed  *)
(* once.                                                                   *)
(***************************************************************************)
Memo_is_any_ip4 == [t \in Texts |-> is_any_ip4(t)]
Memo_is_net_ip4 == [t \in Texts |-> is_net_ip4(t)]
Memo_is_host_ip4 == [t \in Texts |-> is_host_ip4(t)]
Memo_is_any_ip6 == [t \in Texts |-> is_any_ip6(t)]
Memo_is_net_ip6 == [t \in Texts |-> is_net_ip6(t)]
Memo_is_host_ip6 == [t \in Texts |-> is_host_ip6(t)]
Memo_is_any_ip == [t \in Texts |-> is_any_ip(t)]
Memo_is_net_ip == [t \in Texts |-> is_net_ip(t)]
Memo_is_host_ip == [t \in Texts |-> is_host_ip(t)]
Memo_ip_only == [t \in Texts |-> ip_only(t)]
\* ipaddress.ip_address(ip_only(value)), the left operand in in_subnet
Memo_address_of_ip_only == [t \in Texts |-> ip_address(ip_only(t))]
\* ipaddress.ip_network(subnet), the body of _to_subnet
Memo_ip_network == [t \in Texts |-> ip_network(t)]

(***************************************************************************)
(* The program: subnet membership and the cache of parsed subnets          *)
(***************************************************************************)
\* capacity of the lru_cache of _to_subnet.  lru_cache() keeps its default
\* maxsize of 128 entries; the model scales it down so that evictions
\* happen within the checked sequences of calls.
maxsize == 2

\* the subnet strings held by a cache: a sequence of entries, the least
\* recently used first
CacheKeys(c) == {c[i].key : i \in DOMAIN c}

CacheIndex(c, key) == CHOOSE i \in DOMAIN c : c[i].key = key

RemoveAt(c, i) == SubSeq(c, 1, i - 1) \o SubSeq(c, i + 1, Len(c))

\* a hit that returns the most recently used entry, whatever the key
CacheHit_Newest(c, i) ==
    [raised |-> FALSE, net |-> c[Len(c)].net, event |-> "hit",
     cache |-> Append(RemoveAt(c, i), c[i])]

\* a hit: the stored network, and the entry becomes the most recently used
CacheHit(c, i) ==
    [raised |-> FALSE, net |-> c[i].net, event |-> "hit",
     cache |-> Append(RemoveAt(c, i), c[i])]

\* a miss that evicts the most recently used entry of a full cache
CacheMiss_EvictNewest(c, subnet, n) ==
    IF ~n.ok
    THEN [raised |-> TRUE, net |-> Raise, event |-> "raise", cache |-> c]
    ELSE [raised |-> FALSE, net |-> n, event |-> "miss",
          cache |-> IF Len(c) >= maxsize
                    THEN Append(SubSeq(c, 1, Len(c) - 1), [key |-> subnet, net |-> n])
                    ELSE Append(c, [key |-> subnet, net |-> n])]

\* a miss: the exception of ip_network passes through and nothing is
\* stored; its result is stored, evicting the least recently used entry
\* of a full cache
CacheMiss(c, subnet, n) ==
    IF ~n.ok
    THEN [raised |-> TRUE, net |-> Raise, event |-> "raise", cache |-> c]
    ELSE [raised |-> FALSE, net |-> n, event |-> "miss",
          cache |-> IF Len(c) >= maxsize
                    THEN Append(Tail(c), [key |-> subnet, net |-> n])
                    ELSE Append(c, [key |-> subnet, net |-> n])]

\* functools.lru_cache around "return ipaddress.ip_network(subnet)"
_to_subnet(c, subnet) ==
    IF subnet \in CacheKeys(c)
    THEN CacheHit(c, CacheIndex(c, subnet))
    ELSE CacheMiss(c, subnet, Memo_ip_network[subnet])

\* "a in r", r what _to_subnet returned or raised; the bare except gives
\* False
Membership(a, r) ==
    IF r.raised
    THEN [ret |-> PyFalse, cache |-> r.cache, event |-> r.event]
    ELSE [ret |-> ToPy(Contains(r.net, a)), cache |-> r.cache, event |-> r.event]

\* in_subnet that takes a bare address only as its value
in_subnet_HostOnly(c, value, subnet) ==
    IF Memo_is_host_ip[value] # PyTrue
    THEN [ret |-> PyFalse, cache |-> c, event |-> "none"]
    ELSE Membership(Memo_address_of_ip_only[value], _to_subnet(c, subnet))

\* in_subnet on cache c: the result, the cache afterwards and what
\* _to_subnet did ("none" when it was not reached, because the left
\* operand of "in", ip_address(ip_only(value)), raised)
in_subnet(c, value, subnet) ==
    IF ~Memo_address_of_ip_only[value].ok
    THEN [ret |-> PyFalse, cache |-> c, event |-> "none"]
    ELSE Membership(Memo_address_of_ip_only[value], _to_subnet(c, subnet))

(***************************************************************************)
(* The program: the functions bound into the lxml namespace                *)
(***************************************************************************)
\* What the XPath evaluator hands over as "ele":
\*   "missing"  no argument at all (the XPath call has no argument)
\*   "empty"    an empty node-set, []
\*   "scalar"   a number or boolean: not subscriptable
\*   "notext"   a list whose first item has no .text attribute (a string)
\*   "elem"     a list whose first item is an element with .text = text
\*              (NoneText for an element without text)
EleKinds == {"missing", "empty", "scalar", "notext", "elem"}
Ele(kind, text) == [kind |-> kind, text |-> IF kind = "elem" THEN text ELSE <<>>]

PyTypeError == "TypeError"

\* the nine names bound with make_nsf and the function each wraps
NsfNames == {"ip-any", "ip-host", "ip-net", "ip6-any", "ip6-net", "ip6-host",
             "ip4-any", "ip4-net", "ip4-host"}

BoundFunc(name, text) ==
    CASE name = "ip-any" -> Memo_is_any_ip[text]
      [] name = "ip-host" -> Memo_is_host_ip[text]
      [] name = "ip-net" -> Memo_is_net_ip[text]
      [] name = "ip6-any" -> Memo_is_any_ip6[text]
      [] name = "ip6-net" -> Memo_is_net_ip6[text]
      [] name = "ip6-host" -> Memo_is_host_ip6[text]
      [] name = "ip4-any" -> Memo_is_any_ip4[text]
      [] name = "ip4-net" -> Memo_is_net_ip4[text]
      [] name = "ip4-host" -> Memo_is_host_ip4[text]

\* make_nsf(func)(dummy, ele): a call without ele raises TypeError to the
\* caller; any exception of func(ele[0].text) gives False
wrapper(name, ele) ==
    IF ele.kind = "missing" THEN PyTypeError
    ELSE IF ele.kind # "elem" THEN PyFalse
    ELSE BoundFunc(name, ele.text)

\* nsf_in_subnet(dummy, ele, subnet) on cache c
nsf_in_subnet(c, ele, subnet) ==
    IF ele.kind = "missing" THEN [ret |-> PyTypeError, cache |-> c, event |-> "none"]
    ELSE IF ele.kind # "elem" THEN [ret |-> PyFalse, cache |-> c, event |-> "none"]
    ELSE in_subnet(c, ele.text, subnet)

(***************************************************************************)
(* State                                                                   *)
(*   arg    the inputs of a behaviour that applies the functions to one    *)
(*          value (and one subnet string)                                  *)
(*   last   the last call: function, arguments, returned value (ret; out   *)
(*          is the string ip_only returned), what _to_subnet did (event)   *)
(*          and, before the call, how many other distinct subnet strings   *)
(*          _to_subnet had returned since it last returned this one (age,  *)
(*          -1 when it never had)                                          *)
(*   cache  the lru_cache of _to_subnet, least recently used entry first   *)
(*   used   history: the subnet strings _to_subnet has returned a network  *)
(*          for, in the order of their last use                            *)
(***************************************************************************)
VARIABLES arg, last, cache, used

vars == <<arg, last, cache, used>>

NoEle == Ele("none", <<>>)

NoCall == [fn |-> "none", value |-> <<>>, subnet |-> <<>>, ele |-> NoEle,
           ret |-> PyNone, out |-> <<>>, event |-> "none", age |-> -1]

Age(u, subnet) ==
    IF subnet \in Range(u)
    THEN Len(u) - (CHOOSE i \in DOMAIN u : u[i] = subnet)
    ELSE -1

UsedAfter(u, subnet, event) ==
    IF event \in {"hit", "miss"}
    THEN Append(SelectSeq(u, LAMBDA k : k # subnet), subnet)
    ELSE u

\* a call of one of the classification predicates on arg.value
Predicate(fn, ret) ==
    /\ last' = [NoCall EXCEPT !.fn = fn, !.value = arg.value, !.ret = ret]
    /\ UNCHANGED <<arg, cache, used>>

Call_is_any_ip4 == Predicate("is_any_ip4", Memo_is_any_ip4[arg.value])
Call_is_net_ip4 == Predicate("is_net_ip4", Memo_is_net_ip4[arg.value])
Call_is_host_ip4 == Predicate("is_host_ip4", Memo_is_host_ip4[arg.value])
Call_is_any_ip6 == Predicate("is_any_ip6", Memo_is_any_ip6[arg.value])
Call_is_net_ip6 == Predicate("is_net_ip6", Memo_is_net_ip6[arg.value])
Call_is_host_ip6 == Predicate("is_host_ip6", Memo_is_host_ip6[arg.value])
Call_is_any_ip == Predicate("is_any_ip", Memo_is_any_ip[arg.value])
Call_is_net_ip == Predicate("is_net_ip", Memo_is_net_ip[arg.value])
Call_is_host_ip == Predicate("is_host_ip", Memo_is_host_ip[arg.value])

Call_ip_only ==
    /\ last' = [NoCall EXCEPT !.fn = "ip_only", !.value = arg.value,
                              !.ret = IF Memo_ip_only[arg.value] = NoneText
                                      THEN PyNone ELSE "str",
                              !.out = Memo_ip_only[arg.value]]
    /\ UNCHANGED <<arg, cache, used>>

\* a call, by the XPath evaluator, of one of the nine functions make_nsf made
Call_wrapper ==
    \E name \in NsfNames, kind \in EleKinds :
        /\ last' = [NoCall EXCEPT !.fn = name, !.ele = Ele(kind, arg.value),
                                  !.ret = wrapper(name, Ele(kind, arg.value))]
        /\ UNCHANGED <<arg, cache, used>>

\* a call that goes through in_subnet and returned r
Returned(fn, value, ele, subnet, r) ==
    /\ last' = [NoCall EXCEPT !.fn = fn, !.value = value, !.ele = ele,
                              !.subnet = subnet, !.ret = r.ret,
                              !.event = r.event, !.age = Age(used, subnet)]
    /\ cache' = r.cache
    /\ used' = UsedAfter(used, subnet, r.event)
    /\ UNCHANGED arg

Call_in_subnet(value, subnet) ==
    Returned("in_subnet", value, NoEle, subnet, in_subnet(cache, value, subnet))

\* a call, by the XPath evaluator, of the bound in-subnet
Call_nsf_in_subnet(ele, subnet) ==
    Returned("in-subnet", <<>>, ele, subnet, nsf_in_subnet(cache, ele, subnet))

\* after import: nothing called, the cache empty
Start == last = NoCall /\ cache = <<>> /\ used = <<>>

(***************************************************************************)
(* Spec: the predicates, ip_only and the make_nsf wrappers applied, in any *)
(* order and any number of times, to one value drawn from Texts.           *)
(***************************************************************************)
Init == arg \in [value : Texts, subnet : {<<>>}] /\ Start

Next ==
    \/ Call_is_any_ip4
    \/ Call_is_net_ip4
    \/ Call_is_host_ip4
    \/ Call_is_any_ip6
    \/ Call_is_net_ip6
    \/ Call_is_host_ip6
    \/ Call_is_any_ip
    \/ Call_is_net_ip
    \/ Call_is_host_ip
    \/ Call_ip_only
    \/ Call_wrapper

Spec == Init /\ [][Next]_vars

(***************************************************************************)
(* SpecSubnet: in_subnet and the bound in-subnet applied to one pair of a  *)
(* value and a subnet string, starting from the empty cache.               *)
(***************************************************************************)
InitSubnet == arg \in [value : Texts, subnet : SubnetTexts] /\ Start

Subnet_in_subnet == Call_in_subnet(arg.value, arg.subnet)

Subnet_nsf_in_subnet ==
    \E kind \in EleKinds : Call_nsf_in_subnet(Ele(kind, arg.value), arg.subnet)

NextSubnet == Subnet_in_subnet \/ Subnet_nsf_in_subnet

SpecSubnet == InitSubnet /\ [][NextSubnet]_vars

(***************************************************************************)
(* SpecCache: any sequence of in_subnet and in-subnet calls, each with its *)
(* own value and subnet string, over one cache.                            *)
(***************************************************************************)
InitCache == arg = [value |-> <<>>, subnet |-> <<>>] /\ Start

Cache_in_subnet ==
    \E value \in CacheValues, subnet \in CacheSubnets :
        Call_in_subnet(value, subnet)

Cache_nsf_in_subnet ==
    \E value \in CacheValues, kind \in {"elem", "empty"}, subnet \in CacheSubnets :
        Call_nsf_in_subnet(Ele(kind, value), subnet)

NextCache == Cache_in_subnet \/ Cache_nsf_in_subnet

SpecCache == InitCache /\ [][NextCache]_vars

(***************************************************************************)
(* What a text denotes, read off the sample it was written from and not    *)
(* from the parsers.                                                       *)
(***************************************************************************)
Denotes == [t \in Texts |-> CHOOSE r \in Samples : r.text = t]

FamilyWidth(fam) == IF fam = 4 THEN 32 ELSE 128

\* bit j (1 the most significant) of the address of sample r
AddressBit(r, j) ==
    LET w == IF r.fam = 4 THEN 8 ELSE 16
    IN  (r.ip[((j - 1) \div w) + 1] \div (2 ^ (w - 1 - ((j - 1) % w)))) % 2

\* the prefix length a parser gives the text: its own, or the full width
\* for a bare address
DenotedPrefix(r) == IF r.plen = -1 THEN FamilyWidth(r.fam) ELSE r.plen

IsIPLiteral(r) == r.fam # 0
IsBareAddress(r, fam) == r.fam = fam /\ r.plen = -1
HasPrefix(r) == r.fam # 0 /\ r.plen >= 0
HostBitsZero(r) ==
    \A j \in (DenotedPrefix(r) + 1)..FamilyWidth(r.fam) : AddressBit(r, j) = 0
\* every IP literal parses as an interface; as a network when no host bit
\* is set
ParsesAsNetwork(r) == r.fam # 0 /\ HostBitsZero(r)

\* the address of a lies in the range of the network n
InRange(a, n) ==
    /\ a.fam = n.fam
    /\ \A j \in 1..DenotedPrefix(n) : AddressBit(a, j) = AddressBit(n, j)

Predicates4 == {"is_any_ip4", "is_net_ip4", "is_host_ip4"}
Predicates6 == {"is_any_ip6", "is_net_ip6", "is_host_ip6"}
PredicatesAny == {"is_any_ip", "is_net_ip", "is_host_ip"}
Predicates == Predicates4 \cup Predicates6 \cup PredicatesAny

\* the sample of the value of the last call
LastValue == Denotes[last.value]

(***************************************************************************)
(* C1: for a text that is no IP literal (the empty string and None         *)
(* included) each of the nine predicates returns False, and ip_only        *)
(* returns None.                                                           *)
(***************************************************************************)
C1_NonIPGivesFalse ==
    /\ (last.fn \in Predicates /\ ~IsIPLiteral(LastValue)) => last.ret = PyFalse
    /\ (last.fn = "ip_only" /\ ~IsIPLiteral(LastValue)) => last.out = NoneText

(***************************************************************************)
(* C2: a text whose prefix length is the full width of its family counts   *)
(* as a host and not as a net: the net predicates return False and the     *)
(* host predicates return True.                                            *)
(***************************************************************************)
FullWidthPrefix(r) == HasPrefix(r) /\ r.plen = FamilyWidth(r.fam)
NetPredicateOf(r) == IF r.fam = 4 THEN "is_net_ip4" ELSE "is_net_ip6"
HostPredicateOf(r) == IF r.fam = 4 THEN "is_host_ip4" ELSE "is_host_ip6"

C2_FullWidthIsHost ==
    FullWidthPrefix(LastValue) =>
        /\ last.fn \in {NetPredicateOf(LastValue), "is_net_ip"} => last.ret = PyFalse
        /\ last.fn \in {HostPredicateOf(LastValue), "is_host_ip"} => last.ret = PyTrue

\* C2 as amended: the net predicates return False, and the host predicates
\* do not return True either (a text with a prefix is no bare address)
C2_FullWidthNotNet ==
    FullWidthPrefix(LastValue) =>
        /\ last.fn \in {NetPredicateOf(LastValue), "is_net_ip"} => last.ret = PyFalse
        /\ last.fn \in {HostPredicateOf(LastValue), "is_host_ip"} => last.ret # PyTrue

C2_Witness ==
    /\ FullWidthPrefix(LastValue)
    /\ last.fn \in {"is_host_ip4", "is_host_ip6"}
    /\ last.ret # PyTrue

(***************************************************************************)
(* C3: per family, the host predicate is true exactly for a bare address,  *)
(* the net predicate exactly for a text with a prefix length other than    *)
(* the full width (host bits set or not), the any predicate exactly for an *)
(* IP literal of the family; a bare IPv6 address makes no IPv4 predicate   *)
(* true and makes is_any_ip and is_host_ip return True.                    *)
(***************************************************************************)
C3_FamilyOf(fn) == IF fn \in Predicates4 THEN 4 ELSE 6

C3_Classification ==
    /\ last.fn \in {"is_host_ip4", "is_host_ip6"} =>
         (last.ret = PyTrue <=> IsBareAddress(LastValue, C3_FamilyOf(last.fn)))
    /\ last.fn \in {"is_net_ip4", "is_net_ip6"} =>
         (last.ret = PyTrue <=>
             /\ LastValue.fam = C3_FamilyOf(last.fn)
             /\ DenotedPrefix(LastValue) # FamilyWidth(LastValue.fam))
    /\ last.fn \in {"is_any_ip4", "is_any_ip6"} =>
         (last.ret = PyTrue <=> LastValue.fam = C3_FamilyOf(last.fn))
    /\ IsBareAddress(LastValue, 6) =>
         /\ last.fn \in Predicates4 => last.ret # PyTrue
         /\ last.fn \in {"is_any_ip", "is_host_ip"} => last.ret = PyTrue

C3_Witness ==
    /\ last.fn = "is_net_ip4"
    /\ HasPrefix(LastValue) /\ ~HostBitsZero(LastValue)
    /\ last.ret = PyTrue

(***************************************************************************)
(* C4: in_subnet(value, subnet) returns True exactly when value is an IP   *)
(* literal, subnet parses as a network, both are of one family and the     *)
(* address of value lies in the range of the network; otherwise it returns *)
(* False.  A prefix length of value plays no role.                         *)
(***************************************************************************)
C4_InSubnet ==
    last.fn = "in_subnet" =>
        /\ last.ret \in {PyTrue, PyFalse}
        /\ last.ret = PyTrue <=>
             /\ IsIPLiteral(LastValue)
             /\ ParsesAsNetwork(Denotes[last.subnet])
             /\ InRange(LastValue, Denotes[last.subnet])

C4_Witness ==
    /\ last.fn = "in_subnet"
    /\ last.ret = PyTrue
    /\ HasPrefix(LastValue) /\ ~HostBitsZero(LastValue)
    /\ DenotedPrefix(LastValue) < DenotedPrefix(Denotes[last.subnet])

(***************************************************************************)
(* C5: ip_only returns the canonical string of a bare address, the own     *)
(* address of an interface form (not the base of its subnet), the base     *)
(* address of a network form, and None when the text is no IP literal.     *)
(***************************************************************************)
C5_Extraction ==
    last.fn = "ip_only" =>
        last.out = IF IsIPLiteral(LastValue) THEN LastValue.canon ELSE NoneText

C5_Witness ==
    /\ last.fn = "ip_only"
    /\ HasPrefix(LastValue) /\ ~HostBitsZero(LastValue)
    /\ last.out = LastValue.canon

(***************************************************************************)
(* C6: whatever calls came before, in_subnet returns what it returns on an *)
(* empty cache: the result depends on the two arguments only.              *)
(***************************************************************************)
C6_CacheTransparent ==
    /\ last.fn = "in_subnet" =>
         last.ret = in_subnet(<<>>, last.value, last.subnet).ret
    /\ last.fn = "in-subnet" =>
         last.ret = nsf_in_subnet(<<>>, last.ele, last.subnet).ret

\* a hit that returns True after some entry was evicted
C6_Witness ==
    /\ last.fn = "in_subnet"
    /\ last.event = "hit"
    /\ last.ret = PyTrue
    /\ Len(used) > maxsize

(***************************************************************************)
(* C7: each of the ten bound functions returns False when ele is missing,  *)
(* is an empty node-set, or its first item has no text.                    *)
(***************************************************************************)
C7_BoundGivesFalse ==
    (/\ last.fn \in NsfNames \cup {"in-subnet"}
     /\ \/ last.ele.kind \in {"missing", "empty", "scalar", "notext"}
        \/ last.ele = Ele("elem", NoneText))
    => last.ret = PyFalse

(***************************************************************************)
(* C8: a subnet string that _to_subnet parsed stays in the cache for good: *)
(* every later call that reaches _to_subnet with it is a hit.              *)
(***************************************************************************)
C8_RetainedForever ==
    /\ \A i \in DOMAIN used : used[i] \in CacheKeys(cache)
    /\ (last.event # "none" /\ last.age >= 0) => last.event = "hit"

\* C8 as amended: it stays in the cache as long as fewer than maxsize other
\* distinct subnet strings were returned by _to_subnet since its last use,
\* and a call that reaches _to_subnet is a hit exactly then
C8_RetainedWhileRecent ==
    /\ \A i \in DOMAIN used :
         used[i] \in CacheKeys(cache) <=> Len(used) - i < maxsize
    /\ last.event # "none" =>
         (last.event = "hit" <=> last.age \in 0..(maxsize - 1))

\* a hit on the least recently used entry of a full cache, after an eviction
C8_Witness ==
    /\ last.event = "hit"
    /\ last.age = maxsize - 1
    /\ Len(used) > maxsize

(***************************************************************************)
(* C9: ip_only(s) returns an address exactly when is_any_ip(s) is True,    *)
(* and the address it returns is a bare host in canonical form:            *)
(* is_host_ip of it is True and ip_only of it is itself.                   *)
(***************************************************************************)
C9_ExtractionIsHost ==
    last.fn = "ip_only" =>
        /\ last.out # NoneText <=> is_any_ip(last.value) = PyTrue
        /\ last.out # NoneText =>
             /\ is_host_ip(last.out) = PyTrue
             /\ ip_only(last.out) = last.out

\* an address that is returned in another spelling than it was given
C9_Witness ==
    /\ last.fn = "ip_only"
    /\ IsBareAddress(LastValue, 6)
    /\ last.out # NoneText
    /\ last.out # last.value

(***************************************************************************)
(* C10: host and net are never both true of a text, and each of them       *)
(* implies any, per family and for the family-free predicates.             *)
(***************************************************************************)
C10_Exclusive(host, net, any) ==
    /\ ~(host = PyTrue /\ net = PyTrue)
    /\ (host = PyTrue \/ net = PyTrue) => any = PyTrue

C10_HostNetAny ==
    /\ last.fn \in Predicates4 =>
         C10_Exclusive(is_host_ip4(last.value), is_net_ip4(last.value),
                       is_any_ip4(last.value))
    /\ last.fn \in Predicates6 =>
         C10_Exclusive(is_host_ip6(last.value), is_net_ip6(last.value),
                       is_any_ip6(last.value))
    /\ last.fn \in PredicatesAny =>
         C10_Exclusive(is_host_ip(last.value), is_net_ip(last.value),
                       is_any_ip(last.value))

C10_Witness ==
    /\ last.fn = "is_net_ip6"
    /\ last.ret = PyTrue
    /\ is_any_ip6(last.value) = PyTrue
    /\ is_host_ip6(last.value) # PyTrue

=============================================================================
